---- MODULE Spec2Model ----
(***************************************************************************)
(* Model of packages/app/src/cli/services/dev/extension/bundler.ts:        *)
(* the build pipeline of one extension, which is the function watcher of a *)
(* function extension or the draftable bundler of a UI extension           *)
(* (specification Spec); the same with the config watcher next to it       *)
(* (SpecWatch); and setupBundlerAndFileWatcher over several extensions     *)
(* (SpecOrch); the code, config and locale watchers of one extension side  *)
(* by side (SpecKinds); the same through the shutdown of the session       *)
(* (SpecShutdown); and getFunctionWatchPaths called repeatedly on one      *)
(* extension (SpecPaths).                                                  *)
(* Model of packages/cli-kit/src/store.ts: the appInfo list of CLIKitStore *)
(* (SpecStore) and the cliKitStore() singleton (SpecSingleton).            *)
(*                                                                         *)
(* JavaScript runs the callbacks on one event loop: a watcher callback, a  *)
(* promise continuation chain (.then/.catch/.finally) and an abort         *)
(* listener each run to completion, so each is one action.  The builds,    *)
(* the remote pushes and the watchers' close() are external and settle at  *)
(* any later time with either outcome.                                     *)
(***************************************************************************)
EXTENDS Integers, Sequences, FiniteSets

\* ------------------------------------------------------------------ bounds
\* change events delivered to the function watcher
MaxBuilds == 3
\* the same, in the specification with the config watcher
MaxWatchBuilds == 1
\* change events delivered to the config watcher
MaxConfigChanges == 2
\* rebuilds reported by the draftable bundler
MaxRebuilds == 2
\* length of the error list of a bundler result
MaxErrors == 1
\* extensions in devOptions.extensions
NumUnits == 2
\* locale change events delivered, over all extensions
MaxLocaleChanges == 1
\* calls of the returned handle's close()
MaxCloseCalls == 2
\* configured entries of extension.watchPaths, for getFunctionWatchPaths
MaxPaths == 2
\* calls of getFunctionWatchPaths on one extension
MaxCalls == 3
\* callers of cliKitStore()
NumCallers == 4
\* directories the app information is cached for
NumDirectories == 2
\* change events of each kind delivered in a session that is shut down
MaxShutdownChanges == 1

VARIABLES
    \* --- one extension, watched through the caller's abort signal
    signalAborted,     \* signal.aborted of the signal handed to setup*
    extension,         \* [type, isJavaScript, watchPaths, directory] of the unit
    functionWatcher,   \* state of the chokidar watcher of setupFunctionWatcher
    watchedPaths,      \* paths handed to chokidar.watch by setupFunctionWatcher
    buildController,   \* 0 for null, else the id of the build whose controller it is
    builds,            \* builds[b]: the b-th build started by the change handler
    warnings,          \* outputWarn calls of setupFunctionWatcher for a missing watch path
    configWatcher,     \* state of the chokidar watcher of setupConfigWatcher
    configPushes,      \* configPushes[i]: the i-th updateExtensionConfig call
    draftBundler,      \* state of bundleExtension started by setupDraftableExtensionBundler
    rebuilds,          \* rebuilds[i]: the i-th run of the draftable watch callback
    lateOps,           \* kinds of operation started while signal.aborted
    changes,           \* change events delivered to the function watcher's callback
    \* --- setupBundlerAndFileWatcher
    orch,              \* position of the setupBundlerAndFileWatcher call
    orchAborted,       \* abortController.signal.aborted
    bundlers,          \* bundlers[u]: state of the promise pushed for extension u
    localeWatcher,     \* localeWatcher[u]: state of the locale watcher of u
    localeCloseCalls,  \* localeWatcher[u].close() calls
    localeNotifs,      \* localeNotifs[u]: payloadStore.updateExtension calls of the locale handler
    closeCalls,        \* calls of the returned handle's close()
    closeLog,          \* extensions named in a 'failed to close' outputDebug message
    \* --- repeated calls of getFunctionWatchPaths on one extension
    pathCalls,         \* calls made so far
    origWatchPaths,    \* extension.watchPaths before the first call
    firstPaths,        \* what the first call returned
    lastPaths,         \* what the latest call returned
    \* --- cli-kit/src/store.ts
    appInfo,           \* the 'appInfo' list the Conf store holds
    lastOp,            \* the CLIKitStore method called last
    lastOptions,       \* its argument (for clearAppInfo: the directory alone)
    stringField,       \* the optional string field the callers of this run supply
    storeInstance,     \* _instance: 0 for undefined, else the id of a CLIKitStore
    constructed,       \* CLIKitStore objects constructed so far
    callers            \* callers[c]: position and result of caller c's cliKitStore() call

fnVars == <<signalAborted, extension, functionWatcher, watchedPaths, buildController,
            builds, warnings, configWatcher, configPushes, draftBundler, rebuilds, lateOps,
            changes>>
orchVars == <<orch, orchAborted, bundlers, localeWatcher, localeCloseCalls,
              localeNotifs, closeCalls, closeLog>>
pathVars == <<pathCalls, origWatchPaths, firstPaths, lastPaths>>
storeVars == <<appInfo, lastOp, lastOptions, stringField, storeInstance, constructed, callers>>
vars == <<fnVars, orchVars, pathVars, storeVars>>

Units == 1..NumUnits

\* ------------------------------------------------------------------ paths
\* A path is the sequence of its segments; joinPath concatenates them.
joinPath(a, b) == a \o b

Directory == <<"ext">>

\* getFunctionWatchPaths pushes onto `extension.watchPaths ?? []`, which is
\* the extension's own array whenever it is defined: this is the array after
\* the call (unchanged on the early return).
watchPathsAfter(ext) ==
    IF ~ext.isJavaScript /\ Len(ext.watchPaths) = 0
    THEN ext.watchPaths
    ELSE LET defaults == IF ext.isJavaScript /\ Len(ext.watchPaths) = 0
                         THEN <<joinPath(<<"src">>, <<"**", "*.js">>),
                                joinPath(<<"src">>, <<"**", "*.ts">>)>>
                         ELSE <<>>
         IN  (ext.watchPaths \o defaults) \o <<joinPath(<<"**">>, <<"input*.graphql">>)>>

\* A test for missing watch paths that forgets the JavaScript defaults.
getFunctionWatchPaths_ignoresJavaScript(ext) ==
    IF Len(ext.watchPaths) = 0
    THEN <<>>
    ELSE LET wp == watchPathsAfter(ext)
         IN  [i \in 1..Len(wp) |-> joinPath(ext.directory, wp[i])]

\* The value getFunctionWatchPaths returns: <<>> stands for null (the code
\* never returns an empty list, it always adds the input*.graphql entry).
getFunctionWatchPaths(ext) ==
    IF ~ext.isJavaScript /\ Len(ext.watchPaths) = 0
    THEN <<>>
    ELSE LET wp == watchPathsAfter(ext)
         IN  [i \in 1..Len(wp) |-> joinPath(ext.directory, wp[i])]

\* ------------------------------------------------------------------ store
\* An optional value is <<>> when undefined and <<v>> when it is v.
\* A merge that takes the supplied value even when it is undefined.
nullishCoalesce_overwrites(a, b) == a

\* a ?? b
nullishCoalesce(a, b) == IF a # <<>> THEN a ELSE b

\* Directories the app information is cached for: a directory is a string
\* compared with ===, here the number that tells it from the others.
Directories == 1..NumDirectories

\* The optional string fields of CachedAppInfo and the values they take.
StringFields == {"appId", "title", "storeFqdn", "orgId"}
OptionalString == {<<>>, <<"v">>}
OptionalBoolean == {<<>>, <<TRUE>>, <<FALSE>>}

\* The arguments of setAppInfo in a run whose callers supply the string
\* field `field` and no other.
Options(field) ==
    {o \in [directory : Directories,
            appId : OptionalString,
            title : OptionalString,
            storeFqdn : OptionalString,
            orgId : OptionalString,
            updateURLs : OptionalBoolean] :
        \A f \in StringFields \ {field} : o[f] = <<>>}

\* apps.findIndex(saved => saved.directory === directory): the first match,
\* 0 standing for -1.
findIndex(apps, directory) ==
    IF \E i \in 1..Len(apps) : apps[i].directory = directory
    THEN CHOOSE i \in 1..Len(apps) :
            /\ apps[i].directory = directory
            /\ \A j \in 1..(i - 1) : apps[j].directory # directory
    ELSE 0

\* apps.splice(index, 1)
splice(apps, index) ==
    [i \in 1..(Len(apps) - 1) |-> IF i < index THEN apps[i] ELSE apps[i + 1]]

\* CLIKitStore.getAppInfo: apps.find(...), <<>> for undefined.
getAppInfo(apps, directory) ==
    LET index == findIndex(apps, directory)
    IN  IF index = 0 THEN <<>> ELSE <<apps[index]>>

\* The list CLIKitStore.setAppInfo hands to this.set('appInfo', ...).
setAppInfo(apps, options) ==
    LET index == findIndex(apps, options.directory)
    IN  IF index = 0
        THEN Append(apps, options)
        ELSE LET app == apps[index]
             IN  [apps EXCEPT ![index] =
                    [directory |-> options.directory,
                     appId |-> nullishCoalesce(options.appId, app.appId),
                     title |-> nullishCoalesce(options.title, app.title),
                     storeFqdn |-> nullishCoalesce(options.storeFqdn, app.storeFqdn),
                     orgId |-> nullishCoalesce(options.orgId, app.orgId),
                     updateURLs |-> nullishCoalesce(options.updateURLs, app.updateURLs)]]

\* The list CLIKitStore.clearAppInfo hands to this.set('appInfo', ...).
clearAppInfo(apps, directory) ==
    LET index == findIndex(apps, directory)
    IN  IF index # 0 THEN splice(apps, index) ELSE apps

\* The argument recorded for a call that names a directory only.
OnlyDirectory(directory) ==
    [directory |-> directory, appId |-> <<>>, title |-> <<>>, storeFqdn |-> <<>>,
     orgId |-> <<>>, updateURLs |-> <<>>]

Callers == 1..NumCallers

\* An empty store (this.get('appInfo') ?? [] is []), and no CLIKitStore yet.
InitStore ==
    /\ appInfo = <<>>
    /\ lastOp = "none"
    /\ lastOptions = OnlyDirectory(1)
    /\ stringField = "appId"
    /\ storeInstance = 0
    /\ constructed = 0
    /\ callers = [c \in Callers |-> [pc |-> "idle", store |-> 0]]

\* ------------------------------------------------------------------ Init
NewBuild(overlapped) ==
    [aborted |-> FALSE,          \* buildSignal.aborted
     phase |-> "building",       \* building, pushing (draft push pending), settled
     result |-> "none",          \* how buildFunctionExtension settled
     pushed |-> FALSE,           \* updateExtensionDraft was called from this build
     pushResult |-> "none",      \* how that updateExtensionDraft settled
     warned |-> FALSE,           \* outputWarn was called from this build's chain
     overlapped |-> overlapped,  \* started while the previous build was still building
     stale |-> FALSE,            \* a newer build had started when this one settled
     atShutdown |-> FALSE]       \* was building when the signal was aborted

\* The extensions a dev session is started for: a function extension gets
\* setupFunctionWatcher, a UI extension setupDraftableExtensionBundler.
Extensions ==
    [type : {"function"},
     isJavaScript : BOOLEAN,
     watchPaths : {<<>>, <<<<"src", "main.rs">>>>},
     directory : {Directory}]
    \cup
    [type : {"ui_extension"},
     isJavaScript : {TRUE},
     watchPaths : {<<>>},
     directory : {Directory}]

Init ==
    /\ signalAborted = FALSE
    /\ extension \in Extensions
    /\ functionWatcher = "none"
    /\ watchedPaths = <<>>
    /\ buildController = 0
    /\ builds = <<>>
    /\ warnings = 0
    /\ configWatcher = "none"
    /\ configPushes = <<>>
    /\ draftBundler = "none"
    /\ rebuilds = <<>>
    /\ lateOps = {}
    /\ changes = 0
    /\ orch = "idle"
    /\ orchAborted = FALSE
    /\ bundlers = [u \in Units |-> "none"]
    /\ localeWatcher = [u \in Units |-> "none"]
    /\ localeCloseCalls = [u \in Units |-> 0]
    /\ localeNotifs = [u \in Units |-> <<>>]
    /\ closeCalls = 0
    /\ closeLog = {}
    /\ pathCalls = 0
    /\ origWatchPaths = extension.watchPaths
    /\ firstPaths = <<>>
    /\ lastPaths = <<>>
    /\ InitStore

\* ------------------------------------------------- setupFunctionWatcher
\* The call up to `await import('chokidar')`.
setupFunctionWatcherCall ==
    /\ extension.type = "function"
    /\ functionWatcher = "none"
    /\ functionWatcher' = "importing"
    /\ UNCHANGED <<signalAborted, extension, watchedPaths, buildController, builds, warnings,
                   configWatcher, configPushes, draftBundler, rebuilds, lateOps, changes, orchVars, pathVars, storeVars>>

\* The rest of the call: the watch paths, the early return, chokidar.watch
\* and signal.addEventListener('abort', ...).  A listener added to a signal
\* that is already aborted is never called, so such a watcher stays open.
setupFunctionWatcher ==
    /\ functionWatcher = "importing"
    /\ LET watchPaths == getFunctionWatchPaths(extension)
       IN  /\ extension' = [extension EXCEPT !.watchPaths = watchPathsAfter(extension)]
           /\ IF watchPaths = <<>>
              THEN /\ warnings' = warnings + 1
                   /\ functionWatcher' = "skipped"
                   /\ UNCHANGED watchedPaths
              ELSE /\ functionWatcher' = "open"
                   /\ watchedPaths' = watchPaths
                   /\ UNCHANGED warnings
    /\ UNCHANGED <<signalAborted, buildController, builds, configWatcher, configPushes,
                   draftBundler, rebuilds, lateOps, changes, orchVars, pathVars, storeVars>>

\* A change handler that forgets to abort the build in flight.
abortBuildController_forgotten(bs, ctrl) == bs

\* buildController.abort() of the change handler: marks the build whose
\* controller buildController holds, if any.
abortBuildController(bs, ctrl) ==
    IF ctrl # 0 THEN [bs EXCEPT ![ctrl].aborted = TRUE] ELSE bs

\* A change handler that also cancels the config pushes in flight.
functionWatcherChange_cancelsPushes ==
    /\ functionWatcher = "open"
    /\ Len(builds) < MaxBuilds
    /\ LET overlapped == Len(builds) > 0 /\ builds[Len(builds)].phase = "building"
       IN  builds' = Append(abortBuildController(builds, buildController), NewBuild(overlapped))
    /\ buildController' = Len(builds) + 1
    /\ changes' = changes + 1
    /\ configPushes' = [i \in 1..Len(configPushes) |->
                          IF configPushes[i] = "pending" THEN "rejected" ELSE configPushes[i]]
    /\ lateOps' = IF signalAborted THEN lateOps \cup {"build"} ELSE lateOps
    /\ UNCHANGED <<signalAborted, extension, functionWatcher, watchedPaths, warnings,
                   configWatcher, draftBundler, rebuilds, orchVars, pathVars, storeVars>>

\* The 'change' callback of functionWatcher.  The callback itself does not
\* test signal.aborted; chokidar drops its listeners inside close(), so an
\* event is delivered only while the watcher is open.
functionWatcherChange ==
    /\ functionWatcher = "open"
    /\ Len(builds) < MaxBuilds
    /\ LET overlapped == Len(builds) > 0 /\ builds[Len(builds)].phase = "building"
       IN  builds' = Append(abortBuildController(builds, buildController), NewBuild(overlapped))
    /\ buildController' = Len(builds) + 1
    /\ changes' = changes + 1
    /\ lateOps' = IF signalAborted THEN lateOps \cup {"build"} ELSE lateOps
    /\ UNCHANGED <<signalAborted, extension, functionWatcher, watchedPaths, warnings,
                   configWatcher, configPushes, draftBundler, rebuilds, orchVars, pathVars, storeVars>>

\* The condition of the .then handler under which it calls updateExtensionDraft.
shouldPushDraft(build) == ~build.aborted

\* buildFunctionExtension of build b settles: .then, and unless a draft
\* push is now pending, .catch and .finally.
buildSettle(b, ok) ==
    /\ b \in 1..Len(builds)
    /\ builds[b].phase = "building"
    /\ LET stale == b < Len(builds)
       IN  IF ok /\ shouldPushDraft(builds[b])
           THEN /\ builds' = [builds EXCEPT ![b].result = "fulfilled", ![b].stale = stale,
                                            ![b].pushed = TRUE, ![b].phase = "pushing"]
                /\ lateOps' = IF signalAborted THEN lateOps \cup {"draftPush"} ELSE lateOps
                /\ UNCHANGED buildController
           ELSE /\ builds' = [builds EXCEPT ![b].result = IF ok THEN "fulfilled" ELSE "rejected",
                                            ![b].stale = stale,
                                            ![b].warned = ~ok,
                                            ![b].phase = "settled"]
                /\ buildController' = 0
                /\ UNCHANGED lateOps
    /\ UNCHANGED <<signalAborted, extension, functionWatcher, watchedPaths, warnings,
                   configWatcher, configPushes, draftBundler, rebuilds, changes, orchVars, pathVars, storeVars>>

\* updateExtensionDraft of build b settles: .catch on rejection, then .finally.
draftPushSettle(b, ok) ==
    /\ b \in 1..Len(builds)
    /\ builds[b].phase = "pushing"
    /\ builds' = [builds EXCEPT ![b].pushResult = IF ok THEN "fulfilled" ELSE "rejected",
                                ![b].warned = ~ok,
                                ![b].phase = "settled"]
    /\ buildController' = 0
    /\ UNCHANGED <<signalAborted, extension, functionWatcher, watchedPaths, warnings,
                   configWatcher, configPushes, draftBundler, rebuilds, lateOps, changes, orchVars, pathVars, storeVars>>

\* functionWatcher.close() settles; a rejection is logged by outputDebug.
functionWatcherCloseSettle(ok) ==
    /\ functionWatcher = "closing"
    /\ functionWatcher' = IF ok THEN "closed" ELSE "closeFailed"
    /\ UNCHANGED <<signalAborted, extension, watchedPaths, buildController, builds, warnings,
                   configWatcher, configPushes, draftBundler, rebuilds, lateOps, changes, orchVars, pathVars, storeVars>>

\* --------------------------------------------------- setupConfigWatcher
setupConfigWatcherCall ==
    /\ configWatcher = "none"
    /\ configWatcher' = "importing"
    /\ UNCHANGED <<signalAborted, extension, functionWatcher, watchedPaths, buildController,
                   builds, warnings, configPushes, draftBundler, rebuilds, lateOps, changes, orchVars, pathVars, storeVars>>

setupConfigWatcher ==
    /\ configWatcher = "importing"
    /\ configWatcher' = "open"
    /\ UNCHANGED <<signalAborted, extension, functionWatcher, watchedPaths, buildController,
                   builds, warnings, configPushes, draftBundler, rebuilds, lateOps, changes, orchVars, pathVars, storeVars>>

\* A config handler that also rebuilds the function.
configWatcherChange_builds ==
    /\ configWatcher = "open"
    /\ Len(configPushes) < MaxConfigChanges
    /\ configPushes' = Append(configPushes, "pending")
    /\ builds' = Append(builds, NewBuild(FALSE))
    /\ lateOps' = IF signalAborted THEN lateOps \cup {"configPush"} ELSE lateOps
    /\ UNCHANGED <<signalAborted, extension, functionWatcher, watchedPaths, buildController,
                   warnings, configWatcher, draftBundler, rebuilds, changes, orchVars, pathVars, storeVars>>

\* The 'change' callback of configWatcher.
configWatcherChange ==
    /\ configWatcher = "open"
    /\ Len(configPushes) < MaxConfigChanges
    /\ configPushes' = Append(configPushes, "pending")
    /\ lateOps' = IF signalAborted THEN lateOps \cup {"configPush"} ELSE lateOps
    /\ UNCHANGED <<signalAborted, extension, functionWatcher, watchedPaths, buildController,
                   builds, warnings, configWatcher, draftBundler, rebuilds, changes, orchVars, pathVars, storeVars>>

\* updateExtensionConfig settles; the .catch swallows a rejection.
configPushSettle(i, ok) ==
    /\ i \in 1..Len(configPushes)
    /\ configPushes[i] = "pending"
    /\ configPushes' = [configPushes EXCEPT ![i] = IF ok THEN "fulfilled" ELSE "rejected"]
    /\ UNCHANGED <<signalAborted, extension, functionWatcher, watchedPaths, buildController,
                   builds, warnings, configWatcher, draftBundler, rebuilds, lateOps, changes, orchVars, pathVars, storeVars>>

configWatcherCloseSettle(ok) ==
    /\ configWatcher = "closing"
    /\ configWatcher' = IF ok THEN "closed" ELSE "closeFailed"
    /\ UNCHANGED <<signalAborted, extension, functionWatcher, watchedPaths, buildController,
                   builds, warnings, configPushes, draftBundler, rebuilds, lateOps, changes, orchVars, pathVars, storeVars>>

\* --------------------------------------- setupDraftableExtensionBundler
\* The call: bundleExtension is started in watch mode with watchSignal.
setupDraftableExtensionBundler ==
    /\ extension.type = "ui_extension"
    /\ draftBundler = "none"
    /\ draftBundler' = "watching"
    /\ UNCHANGED <<signalAborted, extension, functionWatcher, watchedPaths, buildController,
                   builds, warnings, configWatcher, configPushes, rebuilds, lateOps, changes, orchVars, pathVars, storeVars>>

\* An error test that is off by one: a single error passes as success.
hasError_offByOne(nErrors) == (IF nErrors = -1 THEN 0 ELSE nErrors) > 1

\* `(result?.errors?.length ?? 0) > 0`; nErrors = -1 stands for a result
\* that is undefined or has no error list.
hasError(nErrors) == (IF nErrors = -1 THEN 0 ELSE nErrors) > 0

\* The watch callback of the draftable bundler, run for a rebuild result.
draftableWatch(nErrors) ==
    /\ draftBundler = "watching"
    /\ Len(rebuilds) < MaxRebuilds
    /\ LET error == hasError(nErrors)
       IN  /\ rebuilds' = Append(rebuilds, [errors |-> nErrors,
                                            pushed |-> ~error,
                                            phase |-> IF error THEN "settled" ELSE "pushing",
                                            pushResult |-> "none",
                                            escaped |-> FALSE])
           /\ lateOps' = IF signalAborted /\ ~error THEN lateOps \cup {"draftPush"} ELSE lateOps
    /\ UNCHANGED <<signalAborted, extension, functionWatcher, watchedPaths, buildController,
                   builds, warnings, configWatcher, configPushes, draftBundler, changes, orchVars, pathVars, storeVars>>

\* The awaited updateExtensionDraft of the watch callback settles; the
\* callback has no try/catch, so a rejection rejects the callback's own
\* promise: it escapes to the bundler that called watch, unreported.
draftableWatchSettle(i, ok) ==
    /\ i \in 1..Len(rebuilds)
    /\ rebuilds[i].phase = "pushing"
    /\ rebuilds' = [rebuilds EXCEPT ![i].phase = "settled",
                                    ![i].pushResult = IF ok THEN "fulfilled" ELSE "rejected",
                                    ![i].escaped = ~ok]
    /\ UNCHANGED <<signalAborted, extension, functionWatcher, watchedPaths, buildController,
                   builds, warnings, configWatcher, configPushes, draftBundler, lateOps, changes, orchVars, pathVars, storeVars>>

\* ------------------------------------------------------ the abort signal
\* What an 'abort' listener of setupFunctionWatcher / setupConfigWatcher
\* does to its watcher: it calls close() on it.  Only a watcher that was
\* open when the signal fired has a listener that runs.
abortListener(watcher) == IF watcher = "open" THEN "closing" ELSE watcher

\* bundleExtension stops watching when its watchSignal is aborted.
watchSignalAborted(bundler) == IF bundler = "watching" THEN "stopped" ELSE bundler

\* The owner of the signal aborts it: the listeners registered so far run.
\* Neither listener touches buildController or a pending push.
signalAbort ==
    /\ ~signalAborted
    /\ signalAborted' = TRUE
    /\ functionWatcher' = abortListener(functionWatcher)
    /\ configWatcher' = abortListener(configWatcher)
    /\ draftBundler' = watchSignalAborted(draftBundler)
    /\ builds' = [b \in 1..Len(builds) |->
                    [builds[b] EXCEPT !.atShutdown = (builds[b].phase = "building")]]
    /\ UNCHANGED <<extension, watchedPaths, buildController, warnings, configPushes,
                   rebuilds, lateOps, changes, orchVars, pathVars, storeVars>>

\* ------------------------------------------------------------------ Spec
\* The build pipeline of one extension.
Next ==
    \/ setupFunctionWatcherCall
    \/ setupFunctionWatcher
    \/ functionWatcherChange
    \/ \E b \in 1..MaxBuilds, ok \in BOOLEAN : buildSettle(b, ok)
    \/ \E b \in 1..MaxBuilds, ok \in BOOLEAN : draftPushSettle(b, ok)
    \/ \E ok \in BOOLEAN : functionWatcherCloseSettle(ok)
    \/ setupDraftableExtensionBundler
    \/ \E n \in -1..MaxErrors : draftableWatch(n)
    \/ \E i \in 1..MaxRebuilds, ok \in BOOLEAN : draftableWatchSettle(i, ok)
    \/ signalAbort

Spec == Init /\ [][Next]_vars

\* The build pipeline and the config watcher of one extension.
functionWatcherChangeW == Len(builds) < MaxWatchBuilds /\ functionWatcherChange

NextWatch ==
    \/ setupFunctionWatcherCall
    \/ setupFunctionWatcher
    \/ functionWatcherChangeW
    \/ \E b \in 1..MaxBuilds, ok \in BOOLEAN : buildSettle(b, ok)
    \/ \E b \in 1..MaxBuilds, ok \in BOOLEAN : draftPushSettle(b, ok)
    \/ \E ok \in BOOLEAN : functionWatcherCloseSettle(ok)
    \/ setupDraftableExtensionBundler
    \/ \E n \in -1..MaxErrors : draftableWatch(n)
    \/ \E i \in 1..MaxRebuilds, ok \in BOOLEAN : draftableWatchSettle(i, ok)
    \/ setupConfigWatcherCall
    \/ setupConfigWatcher
    \/ configWatcherChange
    \/ \E i \in 1..MaxConfigChanges, ok \in BOOLEAN : configPushSettle(i, ok)
    \/ \E ok \in BOOLEAN : configWatcherCloseSettle(ok)
    \/ signalAbort

SpecWatch == Init /\ [][NextWatch]_vars

\* --------------------------------------------- setupBundlerAndFileWatcher
\* The call up to `await import('chokidar')`.
setupBundlerAndFileWatcherCall ==
    /\ orch = "idle"
    /\ orch' = "importing"
    /\ UNCHANGED <<orchAborted, bundlers, localeWatcher, localeCloseCalls, localeNotifs,
                   closeCalls, closeLog, fnVars, pathVars, storeVars>>

\* The forEach over devOptions.extensions, up to `await Promise.all(bundlers)`:
\* its callback has no await, so for every extension it starts
\* bundleExtension, opens the locale watcher and adds the abort listener.
setupBundlerAndFileWatcher ==
    /\ orch = "importing"
    /\ orch' = "awaiting"
    /\ bundlers' = [u \in Units |-> "pending"]
    /\ localeWatcher' = [u \in Units |-> "open"]
    /\ UNCHANGED <<orchAborted, localeCloseCalls, localeNotifs, closeCalls, closeLog, fnVars, pathVars, storeVars>>

\* Promise.all(bundlers): rejected as soon as one promise is, fulfilled once all are.
promiseAll(ps) ==
    IF \E u \in DOMAIN ps : ps[u] = "rejected" THEN "rejected"
    ELSE IF \A u \in DOMAIN ps : ps[u] = "fulfilled" THEN "fulfilled"
    ELSE "pending"

\* How the call ends once Promise.all settles: `return {close}` or the
\* rejection, which nothing in the function catches.
afterPromiseAll(all) ==
    IF all = "rejected" THEN "rejected"
    ELSE IF all = "fulfilled" THEN "returned"
    ELSE "awaiting"

\* The bundleExtension promise of extension u settles.
bundlerSettle(u, ok) ==
    /\ bundlers[u] = "pending"
    /\ bundlers' = [bundlers EXCEPT ![u] = IF ok THEN "fulfilled" ELSE "rejected"]
    /\ orch' = IF orch = "awaiting" THEN afterPromiseAll(promiseAll(bundlers')) ELSE orch
    /\ UNCHANGED <<orchAborted, localeWatcher, localeCloseCalls, localeNotifs, closeCalls, closeLog, fnVars, pathVars, storeVars>>

TotalLocaleChanges ==
    LET RECURSIVE sum(_)
        sum(u) == IF u = 0 THEN 0 ELSE Len(localeNotifs[u]) + sum(u - 1)
    IN  sum(NumUnits)

\* A locale handler that also restarts the bundler of its extension.
localeWatcherChange_rebundles(u) ==
    /\ localeWatcher[u] = "open"
    /\ TotalLocaleChanges < MaxLocaleChanges
    /\ localeNotifs' = [localeNotifs EXCEPT ![u] = Append(@, "pending")]
    /\ bundlers' = [bundlers EXCEPT ![u] = "pending"]
    /\ UNCHANGED <<orch, orchAborted, localeWatcher, localeCloseCalls, closeCalls, closeLog,
                   fnVars, pathVars, storeVars>>

\* The 'change' callback of the locale watcher of extension u.
localeWatcherChange(u) ==
    /\ localeWatcher[u] = "open"
    /\ TotalLocaleChanges < MaxLocaleChanges
    /\ localeNotifs' = [localeNotifs EXCEPT ![u] = Append(@, "pending")]
    /\ UNCHANGED <<orch, orchAborted, bundlers, localeWatcher, localeCloseCalls, closeCalls, closeLog, fnVars, pathVars, storeVars>>

\* payloadStore.updateExtension of the locale handler settles; .catch swallows.
localeNotifySettle(u, i, ok) ==
    /\ i \in 1..Len(localeNotifs[u])
    /\ localeNotifs[u][i] = "pending"
    /\ localeNotifs' = [localeNotifs EXCEPT ![u][i] = IF ok THEN "fulfilled" ELSE "rejected"]
    /\ UNCHANGED <<orch, orchAborted, bundlers, localeWatcher, localeCloseCalls, closeCalls, closeLog, fnVars, pathVars, storeVars>>

\* An abort listener added for the first extension only.
listeners_firstOnly(us) == {u \in us : u = 1}

\* The extensions whose 'abort' listener is registered on
\* abortController.signal: the forEach callback adds one for each.
listeners(us) == us

\* An abort() that dispatches the 'abort' event on every call.
abortFires_always(aborted) == TRUE

\* abortController.abort() dispatches 'abort' only if the signal is not
\* aborted yet.
abortFires(aborted) == ~aborted

\* A close() that cancels what is in flight: the pending locale
\* notifications are rejected by the call.
handleClose_cancelling ==
    /\ orch = "returned"
    /\ closeCalls < MaxCloseCalls
    /\ closeCalls' = closeCalls + 1
    /\ orchAborted' = TRUE
    /\ localeWatcher' = [u \in Units |-> abortListener(localeWatcher[u])]
    /\ localeCloseCalls' = [u \in Units |->
                              IF orchAborted THEN localeCloseCalls[u] ELSE localeCloseCalls[u] + 1]
    /\ localeNotifs' = [u \in Units |->
                          [i \in 1..Len(localeNotifs[u]) |->
                              IF localeNotifs[u][i] = "pending" THEN "rejected"
                              ELSE localeNotifs[u][i]]]
    /\ UNCHANGED <<orch, bundlers, closeLog, fnVars, pathVars, storeVars>>

\* close() of the returned handle: abortController.abort().  The first
\* abort runs every listener, each calling close() on its locale watcher;
\* aborting an aborted controller does nothing.
handleClose ==
    /\ orch = "returned"
    /\ closeCalls < MaxCloseCalls
    /\ closeCalls' = closeCalls + 1
    /\ orchAborted' = TRUE
    /\ IF ~abortFires(orchAborted)
       THEN UNCHANGED <<localeWatcher, localeCloseCalls>>
       ELSE /\ localeWatcher' = [u \in Units |->
                                   IF u \in listeners(Units) THEN abortListener(localeWatcher[u])
                                   ELSE localeWatcher[u]]
            /\ localeCloseCalls' = [u \in Units |->
                                      IF u \in listeners(Units)
                                      THEN localeCloseCalls[u] + 1 ELSE localeCloseCalls[u]]
    /\ UNCHANGED <<orch, bundlers, localeNotifs, closeLog, fnVars, pathVars, storeVars>>

\* A failure message that names the first extension whichever watcher failed.
loggedExtension_first(u) == 1

\* The extension the .catch of close() names: extension.devUUID of the
\* forEach callback the listener was created in.
loggedExtension(u) == u

\* localeWatcher.close() of extension u settles; the .catch logs a rejection
\* with outputDebug, so nothing is left unhandled.
localeWatcherCloseSettle(u, ok) ==
    /\ localeWatcher[u] = "closing"
    /\ localeWatcher' = [localeWatcher EXCEPT ![u] = IF ok THEN "closed" ELSE "closeFailed"]
    /\ closeLog' = IF ok THEN closeLog ELSE closeLog \cup {loggedExtension(u)}
    /\ UNCHANGED <<orch, orchAborted, bundlers, localeCloseCalls, localeNotifs, closeCalls,
                   fnVars, pathVars, storeVars>>

NextOrch ==
    \/ setupBundlerAndFileWatcherCall
    \/ setupBundlerAndFileWatcher
    \/ \E u \in Units, ok \in BOOLEAN : bundlerSettle(u, ok)
    \/ \E u \in Units : localeWatcherChange(u)
    \/ \E u \in Units, i \in 1..MaxLocaleChanges, ok \in BOOLEAN : localeNotifySettle(u, i, ok)
    \/ handleClose
    \/ \E u \in Units, ok \in BOOLEAN : localeWatcherCloseSettle(u, ok)

\* The extension record plays no part here: one value is enough.
InitOrch ==
    /\ Init
    /\ extension = [type |-> "ui_extension", isJavaScript |-> TRUE,
                    watchPaths |-> <<>>, directory |-> Directory]

SpecOrch == InitOrch /\ [][NextOrch]_vars

\* ------------------------------------------------------------- SpecKinds
\* The rebuild callback of the draftable bundler, with the bound of this
\* specification on the rebuilds.
draftableWatchW(nErrors) == Len(rebuilds) < MaxWatchBuilds /\ draftableWatch(nErrors)

\* The watchers of one extension side by side, before shutdown: it is the
\* first extension of setupBundlerAndFileWatcher (bundler and locale
\* watcher), has its config watcher, and its function watcher or draftable
\* bundler.
NextKinds ==
    \/ setupFunctionWatcherCall
    \/ setupFunctionWatcher
    \/ functionWatcherChangeW
    \/ \E b \in 1..MaxBuilds, ok \in BOOLEAN : buildSettle(b, ok)
    \/ \E b \in 1..MaxBuilds, ok \in BOOLEAN : draftPushSettle(b, ok)
    \/ setupDraftableExtensionBundler
    \/ \E n \in -1..MaxErrors : draftableWatchW(n)
    \/ \E i \in 1..MaxRebuilds, ok \in BOOLEAN : draftableWatchSettle(i, ok)
    \/ setupConfigWatcherCall
    \/ setupConfigWatcher
    \/ configWatcherChange
    \/ \E i \in 1..MaxConfigChanges, ok \in BOOLEAN : configPushSettle(i, ok)
    \/ setupBundlerAndFileWatcherCall
    \/ setupBundlerAndFileWatcher
    \/ \E ok \in BOOLEAN : bundlerSettle(1, ok)
    \/ localeWatcherChange(1)
    \/ \E i \in 1..MaxLocaleChanges, ok \in BOOLEAN : localeNotifySettle(1, i, ok)

SpecKinds == Init /\ [][NextKinds]_vars

\* ---------------------------------------------------------- SpecShutdown
\* The change callbacks, with the bound of this specification on the
\* change events of each kind.
functionWatcherChangeS == Len(builds) < MaxShutdownChanges /\ functionWatcherChange

draftableWatchS(nErrors) == Len(rebuilds) < MaxShutdownChanges /\ draftableWatch(nErrors)

configWatcherChangeS == Len(configPushes) < MaxShutdownChanges /\ configWatcherChange

localeWatcherChangeS(u) == TotalLocaleChanges < MaxShutdownChanges /\ localeWatcherChange(u)

\* A dev session up to and through its shutdown: setupBundlerAndFileWatcher
\* with the handle whose close() the caller calls, and the watchers of one
\* extension (function watcher or draftable bundler, config watcher) on the
\* caller's signal.
NextShutdown ==
    \/ setupBundlerAndFileWatcherCall
    \/ setupBundlerAndFileWatcher
    \/ \E u \in Units, ok \in BOOLEAN : bundlerSettle(u, ok)
    \/ \E u \in Units : localeWatcherChangeS(u)
    \/ \E u \in Units, i \in 1..MaxLocaleChanges, ok \in BOOLEAN : localeNotifySettle(u, i, ok)
    \/ handleClose
    \/ \E u \in Units, ok \in BOOLEAN : localeWatcherCloseSettle(u, ok)
    \/ setupFunctionWatcherCall
    \/ setupFunctionWatcher
    \/ functionWatcherChangeS
    \/ \E b \in 1..MaxBuilds, ok \in BOOLEAN : buildSettle(b, ok)
    \/ \E b \in 1..MaxBuilds, ok \in BOOLEAN : draftPushSettle(b, ok)
    \/ \E ok \in BOOLEAN : functionWatcherCloseSettle(ok)
    \/ setupDraftableExtensionBundler
    \/ \E n \in -1..MaxErrors : draftableWatchS(n)
    \/ \E i \in 1..MaxRebuilds, ok \in BOOLEAN : draftableWatchSettle(i, ok)
    \/ setupConfigWatcherCall
    \/ setupConfigWatcher
    \/ configWatcherChangeS
    \/ \E i \in 1..MaxConfigChanges, ok \in BOOLEAN : configPushSettle(i, ok)
    \/ \E ok \in BOOLEAN : configWatcherCloseSettle(ok)
    \/ signalAbort

\* The session of a function extension with a configured watch path, or of
\* a UI extension.
InitShutdown ==
    /\ Init
    /\ extension.watchPaths # <<>> \/ extension.type = "ui_extension"
    /\ ~extension.isJavaScript \/ extension.type = "ui_extension"

SpecShutdown == InitShutdown /\ [][NextShutdown]_vars

\* ------------------------------------------------------------- SpecPaths
\* Entries a function extension may configure in build.watch.
PathNames == {<<"src", "main.rs">>, <<"src", "lib.rs">>, <<"schema.graphql">>}

ConfiguredWatchPaths ==
    UNION {[1..n -> PathNames] : n \in 0..MaxPaths}

PathExtensions ==
    [type : {"function"},
     isJavaScript : BOOLEAN,
     watchPaths : ConfiguredWatchPaths,
     directory : {Directory}]

InitPaths ==
    /\ signalAborted = FALSE
    /\ extension \in PathExtensions
    /\ functionWatcher = "none"
    /\ watchedPaths = <<>>
    /\ buildController = 0
    /\ builds = <<>>
    /\ warnings = 0
    /\ configWatcher = "none"
    /\ configPushes = <<>>
    /\ draftBundler = "none"
    /\ rebuilds = <<>>
    /\ lateOps = {}
    /\ changes = 0
    /\ orch = "idle"
    /\ orchAborted = FALSE
    /\ bundlers = [u \in Units |-> "none"]
    /\ localeWatcher = [u \in Units |-> "none"]
    /\ localeCloseCalls = [u \in Units |-> 0]
    /\ localeNotifs = [u \in Units |-> <<>>]
    /\ closeCalls = 0
    /\ closeLog = {}
    /\ pathCalls = 0
    /\ origWatchPaths = extension.watchPaths
    /\ firstPaths = <<>>
    /\ lastPaths = <<>>
    /\ InitStore

\* One call getFunctionWatchPaths(extension): the returned list is kept in
\* lastPaths (and in firstPaths for the first call), and the pushes of the
\* call stay on extension.watchPaths.
callGetFunctionWatchPaths ==
    /\ pathCalls < MaxCalls
    /\ pathCalls' = pathCalls + 1
    /\ lastPaths' = getFunctionWatchPaths(extension)
    /\ firstPaths' = IF pathCalls = 0 THEN getFunctionWatchPaths(extension) ELSE firstPaths
    /\ extension' = [extension EXCEPT !.watchPaths = watchPathsAfter(extension)]
    /\ UNCHANGED <<signalAborted, functionWatcher, watchedPaths, buildController, builds,
                   warnings, configWatcher, configPushes, draftBundler, rebuilds, lateOps,
                   changes, origWatchPaths, orchVars, storeVars>>

NextPaths == callGetFunctionWatchPaths

SpecPaths == InitPaths /\ [][NextPaths]_vars

\* ------------------------------------------------------------- SpecStore
\* store.setAppInfo(options)
setAppInfoCall(options) ==
    /\ appInfo' = setAppInfo(appInfo, options)
    /\ lastOp' = "setAppInfo"
    /\ lastOptions' = options
    /\ UNCHANGED <<stringField, storeInstance, constructed, callers, fnVars, orchVars, pathVars>>

\* store.clearAppInfo(directory)
clearAppInfoCall(directory) ==
    /\ appInfo' = clearAppInfo(appInfo, directory)
    /\ lastOp' = "clearAppInfo"
    /\ lastOptions' = OnlyDirectory(directory)
    /\ UNCHANGED <<stringField, storeInstance, constructed, callers, fnVars, orchVars, pathVars>>

NextStore ==
    \/ \E options \in Options(stringField) : setAppInfoCall(options)
    \/ \E directory \in Directories : clearAppInfoCall(directory)

\* An empty store; the extension record plays no part here.
InitAppInfo ==
    /\ signalAborted = FALSE
    /\ extension = [type |-> "ui_extension", isJavaScript |-> TRUE,
                    watchPaths |-> <<>>, directory |-> Directory]
    /\ functionWatcher = "none"
    /\ watchedPaths = <<>>
    /\ buildController = 0
    /\ builds = <<>>
    /\ warnings = 0
    /\ configWatcher = "none"
    /\ configPushes = <<>>
    /\ draftBundler = "none"
    /\ rebuilds = <<>>
    /\ lateOps = {}
    /\ changes = 0
    /\ orch = "idle"
    /\ orchAborted = FALSE
    /\ bundlers = [u \in Units |-> "none"]
    /\ localeWatcher = [u \in Units |-> "none"]
    /\ localeCloseCalls = [u \in Units |-> 0]
    /\ localeNotifs = [u \in Units |-> <<>>]
    /\ closeCalls = 0
    /\ closeLog = {}
    /\ pathCalls = 0
    /\ origWatchPaths = extension.watchPaths
    /\ firstPaths = <<>>
    /\ lastPaths = <<>>
    /\ appInfo = <<>>
    /\ lastOp = "none"
    /\ lastOptions = OnlyDirectory(1)
    /\ stringField \in StringFields
    /\ storeInstance = 0
    /\ constructed = 0
    /\ callers = [c \in Callers |-> [pc |-> "idle", store |-> 0]]

SpecStore == InitAppInfo /\ [][NextStore]_vars

\* --------------------------------------------------------- SpecSingleton
\* Caller c calls cliKitStore(): the test of _instance, and either the
\* return of the instance there is or the start of the version lookup
\* whose result the constructor call awaits.
cliKitStoreCall(c) ==
    /\ callers[c].pc = "idle"
    /\ callers' = [callers EXCEPT ![c] =
                      IF storeInstance # 0
                      THEN [pc |-> "returned", store |-> storeInstance]
                      ELSE [pc |-> "awaiting", store |-> 0]]
    /\ UNCHANGED <<appInfo, lastOp, lastOptions, stringField, storeInstance, constructed,
                   fnVars, orchVars, pathVars>>

\* constants.versions.cliKit() of caller c settles: when it fulfils, the
\* call constructs a CLIKitStore, assigns it to _instance and returns
\* _instance; when it rejects, the call rejects.
versionLookupSettle(c, ok) ==
    /\ callers[c].pc = "awaiting"
    /\ IF ok
       THEN /\ constructed' = constructed + 1
            /\ storeInstance' = constructed + 1
            /\ callers' = [callers EXCEPT ![c] = [pc |-> "returned", store |-> constructed + 1]]
       ELSE /\ callers' = [callers EXCEPT ![c] = [pc |-> "rejected", store |-> 0]]
            /\ UNCHANGED <<constructed, storeInstance>>
    /\ UNCHANGED <<appInfo, lastOp, lastOptions, stringField, fnVars, orchVars, pathVars>>

NextSingleton ==
    \/ \E c \in Callers : cliKitStoreCall(c)
    \/ \E c \in Callers, ok \in BOOLEAN : versionLookupSettle(c, ok)

InitSingleton ==
    /\ InitAppInfo
    /\ stringField = "appId"

SpecSingleton == InitSingleton /\ [][NextSingleton]_vars

\* ================================================================ claims
Started == 1..Len(builds)

\* A build that is started, not yet resolved and whose signal is not aborted.
ActiveBuilds == {b \in Started : builds[b].phase = "building" /\ ~builds[b].aborted}

\* C1: at every instant at most one build of the unit is active (started,
\* not resolved, signal not aborted).  The code breaks it at the third
\* change: the finally handler of the first chain clears buildController
\* while the second build runs, so the third change aborts nothing.
C1_AtMostOneActiveBuild == Cardinality(ActiveBuilds) <= 1

\* C2: a draft push is initiated from a build only if no newer build of
\* the unit had started when it resolved.
C2_OnlyLatestBuildPushes == \A b \in Started : builds[b].pushed => ~builds[b].stale

\* C3: a build superseded before it resolved (the next change arrived while
\* it was building) never triggers a draft push and never reports an error.
C3_SupersededBuildIsSilent ==
    \A b \in Started :
        (b + 1 \in Started /\ builds[b + 1].overlapped)
            => ~builds[b].pushed /\ ~builds[b].warned

\* C4: with exactly two changes, the second before the first build
\* completed, the first build's signal is aborted and pushes nothing, and if
\* the second build succeeds exactly one draft push results, from the second.
C4_TwoRapidChanges ==
    (Len(builds) = 2 /\ builds[2].overlapped)
        => /\ builds[1].aborted
           /\ ~builds[1].pushed
           /\ builds[2].result = "fulfilled"
                => builds[2].pushed /\ {b \in Started : builds[b].pushed} = {2}

C4_Witness ==
    /\ Len(builds) = 2
    /\ builds[2].overlapped
    /\ builds[1].phase = "settled"
    /\ builds[2].result = "fulfilled"
    /\ builds[2].pushed

\* C5: a failed build (a rejected buildFunctionExtension, a bundler result
\* with a non-empty error list) makes no draft push; the failure leaves the
\* unit watching (only the abort signal ends the watch); and a later build
\* that succeeds, being the latest when it resolves, initiates a draft push.
C5_FailedBuildKeepsWatching ==
    /\ \A b \in Started :
          builds[b].result = "rejected"
            => /\ ~builds[b].pushed
               /\ ~signalAborted => functionWatcher = "open"
               /\ \A c \in Started :
                     (c > b /\ builds[c].result = "fulfilled" /\ ~builds[c].stale)
                        => builds[c].pushed
    /\ \A i \in 1..Len(rebuilds) :
          rebuilds[i].errors > 0
            => /\ ~rebuilds[i].pushed
               /\ ~signalAborted => draftBundler = "watching"
               /\ \A j \in 1..Len(rebuilds) :
                     (j > i /\ rebuilds[j].errors <= 0) => rebuilds[j].pushed

C5_WitnessFunction ==
    /\ Len(builds) >= 2
    /\ builds[1].result = "rejected"
    /\ builds[2].result = "fulfilled"
    /\ builds[2].pushed

\* C6: a rejected bundleExtension promise of one extension leaves the other
\* extensions started and does not make setupBundlerAndFileWatcher reject.
C6_StartFailureDoesNotEscape ==
    (\E u \in Units : bundlers[u] = "rejected")
        => /\ \A v \in Units : bundlers[v] # "none" /\ localeWatcher[v] # "none"
           /\ orch # "rejected"

\* C7: a build that was running when the shutdown signal fired has its
\* signal aborted and never initiates a draft push.
C7_ShutdownCancelsBuild ==
    \A b \in Started : builds[b].atShutdown => builds[b].aborted /\ ~builds[b].pushed

\* C8: once the shutdown signal has closed a session's watcher, nothing is
\* started for that session any more: no build, draft push or config push.
C8_NothingStartsAfterClose ==
    /\ functionWatcher \in {"closing", "closed", "closeFailed"}
          => lateOps \cap {"build", "draftPush"} = {}
    /\ draftBundler = "stopped" => "draftPush" \notin lateOps
    /\ configWatcher \in {"closing", "closed", "closeFailed"} => "configPush" \notin lateOps

\* C9: once the shutdown signal has fired no watcher stays open: a watcher
\* set up with an aborted signal is not opened, or is closed at once.
C9_NoWatcherOpenAfterShutdown ==
    signalAborted => functionWatcher # "open" /\ configWatcher # "open"

\* C10: once the returned handle's close() has fired the shutdown signal,
\* close() has been invoked on the locale watcher of every extension.
C10_CloseAttemptOnEveryWatcher ==
    closeCalls >= 1
        => \A u \in Units : localeCloseCalls[u] >= 1 /\ localeWatcher[u] # "open"

C10_Witness ==
    /\ closeCalls >= 1
    /\ \A u \in Units : localeCloseCalls[u] >= 1
    /\ \E u \in Units : localeWatcher[u] = "closed"

\* C11: shutdown neither awaits nor cancels what is in flight.  A step that
\* is a close() call or the abort of the caller's signal leaves every draft
\* push, config push and locale notification as it was, and leaves every
\* watcher it closes with its close() pending; close() and the abort are
\* possible whatever is pending; and what is pending after the shutdown can
\* still complete or fail.
C11_CloseDoesNotWait ==
    /\ [][(closeCalls' # closeCalls \/ signalAborted' # signalAborted)
            => /\ localeNotifs' = localeNotifs
               /\ configPushes' = configPushes
               /\ rebuilds' = rebuilds
               /\ Len(builds') = Len(builds)
               /\ \A b \in 1..Len(builds) :
                    /\ builds'[b].phase = builds[b].phase
                    /\ builds'[b].result = builds[b].result
                    /\ builds'[b].pushed = builds[b].pushed
                    /\ builds'[b].pushResult = builds[b].pushResult]_vars
    /\ [][closeCalls' # closeCalls
            => \A u \in Units : localeWatcher[u] = "open" => localeWatcher'[u] = "closing"]_vars
    /\ [][signalAborted' # signalAborted
            => /\ functionWatcher = "open" => functionWatcher' = "closing"
               /\ configWatcher = "open" => configWatcher' = "closing"]_vars
    /\ []((orch = "returned" /\ closeCalls < MaxCloseCalls) => ENABLED handleClose)
    /\ [](~signalAborted => ENABLED signalAbort)
    /\ []((orchAborted \/ signalAborted)
            => /\ \A u \in Units : \A i \in 1..Len(localeNotifs[u]) :
                    localeNotifs[u][i] = "pending"
                        => /\ ENABLED localeNotifySettle(u, i, TRUE)
                           /\ ENABLED localeNotifySettle(u, i, FALSE)
               /\ \A i \in 1..Len(configPushes) :
                    configPushes[i] = "pending"
                        => /\ ENABLED configPushSettle(i, TRUE)
                           /\ ENABLED configPushSettle(i, FALSE)
               /\ \A b \in 1..Len(builds) :
                    builds[b].phase = "pushing"
                        => /\ ENABLED draftPushSettle(b, TRUE)
                           /\ ENABLED draftPushSettle(b, FALSE)
               /\ \A i \in 1..Len(rebuilds) :
                    rebuilds[i].phase = "pushing"
                        => /\ ENABLED draftableWatchSettle(i, TRUE)
                           /\ ENABLED draftableWatchSettle(i, FALSE))

\* Shutdown has happened on both sides with a draft push, a config push and
\* a locale notification in flight and the watchers' close() pending.
C11_Witness ==
    /\ closeCalls >= 1
    /\ signalAborted
    /\ \E b \in 1..Len(builds) : builds[b].phase = "pushing"
    /\ \E i \in 1..Len(configPushes) : configPushes[i] = "pending"
    /\ \E i \in 1..Len(localeNotifs[1]) : localeNotifs[1][i] = "pending"
    /\ localeWatcher[1] = "closing"
    /\ functionWatcher = "closing"
    /\ configWatcher = "closing"

\* C12: close() is idempotent: however often the handle's close() is
\* called the signal fires once, every locale watcher has had exactly one
\* close() call, and a second or later call changes nothing.
C12_CloseIdempotent ==
    /\ [](closeCalls >= 1 => orchAborted /\ \A u \in Units : localeCloseCalls[u] = 1)
    /\ [][(closeCalls >= 1 /\ closeCalls' # closeCalls)
            => UNCHANGED <<orch, orchAborted, bundlers, localeWatcher, localeCloseCalls,
                           localeNotifs, closeLog>>]_vars

C12_Witness ==
    /\ closeCalls >= 2
    /\ \A u \in Units : localeCloseCalls[u] = 1

\* C13: a watcher whose close() rejects is logged under its own extension,
\* every other watcher has had its close attempt all the same, and the
\* handle's close() has returned normally; only failures are logged so.
C13_CloseFailureIsContained ==
    /\ \A u \in Units :
          localeWatcher[u] = "closeFailed"
            => /\ u \in closeLog
               /\ \A v \in Units : localeCloseCalls[v] >= 1 /\ localeWatcher[v] # "open"
               /\ orch = "returned"
    /\ \A u \in closeLog : localeWatcher[u] = "closeFailed"

C13_Witness ==
    \E u, v \in Units :
        /\ u # v
        /\ localeWatcher[u] = "closeFailed"
        /\ localeWatcher[v] = "closed"

\* C14: a draft push that fails after a successful build is reported and
\* contained: the function watcher warns about it, the draftable watch
\* callback does not let the rejection escape, and the unit keeps watching.
C14_FailedPushIsContained ==
    /\ \A b \in Started :
          builds[b].pushResult = "rejected"
            => builds[b].warned /\ (~signalAborted => functionWatcher = "open")
    /\ \A i \in 1..Len(rebuilds) :
          rebuilds[i].pushResult = "rejected"
            => ~rebuilds[i].escaped /\ (~signalAborted => draftBundler = "watching")

\* A function unit that is not JavaScript and has no watch path configured.
NoUsableWatchPaths ==
    extension.type = "function" /\ ~extension.isJavaScript /\ Len(origWatchPaths) = 0

\* C15: a function unit without usable watch paths is skipped with one
\* warning: no watcher, no watched path, no build; any other function unit
\* is never skipped, is watched on a non-empty path list without a warning,
\* and has exactly one build per change event delivered.
C15_SkippedWithoutWatchPaths ==
    /\ NoUsableWatchPaths
          => /\ functionWatcher \in {"none", "importing", "skipped"}
             /\ watchedPaths = <<>>
             /\ builds = <<>>
             /\ changes = 0
             /\ warnings = IF functionWatcher = "skipped" THEN 1 ELSE 0
    /\ (extension.type = "function" /\ ~NoUsableWatchPaths)
          => /\ warnings = 0
             /\ functionWatcher # "skipped"
             /\ functionWatcher \notin {"none", "importing"} => watchedPaths # <<>>
             /\ Len(builds) = changes

C15_Witness ==
    /\ NoUsableWatchPaths
    /\ functionWatcher = "skipped"
    /\ warnings = 1

\* C16: a locale change of an extension starts no build: the step that adds
\* a locale notification adds exactly that one notification and leaves
\* every bundler and every function build as it was.
C16_LocaleChangeStartsNoBuild ==
    [][(\E u \in Units : Len(localeNotifs'[u]) > Len(localeNotifs[u]))
        => /\ \E u \in Units :
                localeNotifs' = [localeNotifs EXCEPT ![u] = Append(@, "pending")]
           /\ bundlers' = bundlers
           /\ builds' = builds
           /\ buildController' = buildController
           /\ rebuilds' = rebuilds]_vars

C16_Witness ==
    \E u \in Units :
        /\ bundlers[u] = "fulfilled"
        /\ Len(localeNotifs[u]) >= 1

\* C17: a config change starts a config push and nothing else (no build, no
\* draft push), and a config push that fails leaves the config watcher as
\* it was.
C17_ConfigChangeStartsNoBuild ==
    /\ [][Len(configPushes') > Len(configPushes)
            => /\ configPushes' = Append(configPushes, "pending")
               /\ builds' = builds
               /\ buildController' = buildController
               /\ rebuilds' = rebuilds
               /\ changes' = changes]_vars
    /\ [][(\E i \in 1..Len(configPushes) :
                configPushes[i] = "pending" /\ configPushes'[i] = "rejected")
            => configWatcher' = configWatcher]_vars

C17_Witness ==
    /\ configWatcher = "open"
    /\ Len(configPushes) >= 2
    /\ configPushes[1] = "rejected"
    /\ configPushes[2] = "pending"

\* C18: at most one draft push of the unit is in flight at any instant.
C18_DraftPushesNeverOverlap ==
    /\ Cardinality({b \in Started : builds[b].phase = "pushing"}) <= 1
    /\ Cardinality({i \in 1..Len(rebuilds) : rebuilds[i].phase = "pushing"}) <= 1

\* C19: the code, config and locale changes of one extension are handled
\* independently.  A config or locale change leaves every build and bundler
\* as it was (it aborts nothing) and is handled while a build is in flight
\* (it does not wait); a code change leaves every config push and locale
\* notification as it was, and what is in flight can still settle.
C19_KindsAreIndependent ==
    /\ [][(\/ Len(configPushes') > Len(configPushes)
           \/ \E u \in Units : Len(localeNotifs'[u]) > Len(localeNotifs[u]))
            => /\ builds' = builds
               /\ buildController' = buildController
               /\ bundlers' = bundlers
               /\ rebuilds' = rebuilds]_vars
    /\ [][(Len(builds') > Len(builds) \/ Len(rebuilds') > Len(rebuilds))
            => /\ configPushes' = configPushes
               /\ localeNotifs' = localeNotifs]_vars
    /\ []((ActiveBuilds # {} /\ configWatcher = "open" /\ Len(configPushes) < MaxConfigChanges)
            => ENABLED configWatcherChange)
    /\ []((ActiveBuilds # {} /\ localeWatcher[1] = "open" /\ TotalLocaleChanges < MaxLocaleChanges)
            => ENABLED localeWatcherChange(1))
    /\ [](\A i \in 1..Len(configPushes) :
            configPushes[i] = "pending" => ENABLED configPushSettle(i, TRUE))
    /\ [](\A i \in 1..Len(localeNotifs[1]) :
            localeNotifs[1][i] = "pending" => ENABLED localeNotifySettle(1, i, TRUE))

C19_Witness ==
    /\ ActiveBuilds # {}
    /\ \E i \in 1..Len(configPushes) : configPushes[i] = "pending"
    /\ \E i \in 1..Len(localeNotifs[1]) : localeNotifs[1][i] = "pending"

\* C20: getFunctionWatchPaths leaves extension.watchPaths as it was, and
\* every later call returns the list the first call returned.
C20_UnitIsImmutable ==
    pathCalls >= 1
        => /\ extension.watchPaths = origWatchPaths
           /\ lastPaths = firstPaths

\* C21: a locale watcher is never left open by a call that has rejected:
\* the handle, and with it close(), exists only once the call has returned.
C21_OpenWatcherHasHandle ==
    \A u \in Units :
        localeWatcher[u] = "open" => orch # "rejected"

\* C22: the appInfo list holds at most one entry per directory; setAppInfo
\* on a stored directory gives each field the supplied value, or the stored
\* one if the call supplies none, and leaves the other entries alone;
\* after clearAppInfo(d) getAppInfo(d) is undefined and the entries of the
\* other directories are unchanged.
C22_AppInfoPerDirectory ==
    /\ [](\A i, j \in 1..Len(appInfo) :
            appInfo[i].directory = appInfo[j].directory => i = j)
    /\ [][lastOp' = "setAppInfo"
            => LET o == lastOptions'
                   old == getAppInfo(appInfo, o.directory)
                   new == getAppInfo(appInfo', o.directory)
               IN  /\ new # <<>>
                   /\ new[1].directory = o.directory
                   /\ \A f \in StringFields \cup {"updateURLs"} :
                        new[1][f] = IF o[f] # <<>> THEN o[f]
                                    ELSE IF old # <<>> THEN old[1][f]
                                    ELSE <<>>
                   /\ \A e \in Directories \ {o.directory} :
                        getAppInfo(appInfo', e) = getAppInfo(appInfo, e)]_vars
    /\ [][lastOp' = "clearAppInfo"
            => /\ getAppInfo(appInfo', lastOptions'.directory) = <<>>
               /\ \A e \in Directories \ {lastOptions'.directory} :
                    getAppInfo(appInfo', e) = getAppInfo(appInfo, e)]_vars

C22_Witness ==
    /\ Len(appInfo) = 2
    /\ lastOp = "setAppInfo"
    /\ lastOptions.title = <<>>
    /\ lastOptions.updateURLs = <<FALSE>>
    /\ LET app == getAppInfo(appInfo, lastOptions.directory)
       IN  app # <<>> /\ app[1].title = <<"v">> /\ app[1].updateURLs = <<FALSE>>

\* C23: at most one CLIKitStore is ever constructed, and every caller of
\* cliKitStore() gets the same instance.
C23_SingleInstance ==
    /\ constructed <= 1
    /\ \A c, d \in Callers :
          (callers[c].pc = "returned" /\ callers[d].pc = "returned")
            => callers[c].store = callers[d].store

====
